---- MODULE Spec2Model ----
(***************************************************************************)
(* A model of deepctr/layers.py: the Keras layers FM, AFMLayer,            *)
(* PredictionLayer, CrossNet, MLP, BiInteractionPooling,                   *)
(* OutterProductLayer, InnerProductLayer and LocalActivationUnit.          *)
(*                                                                         *)
(* A tensor is a record [shape, flat]: its static shape and its elements   *)
(* in row-major order, so that a reshape is what the backend does (the     *)
(* same elements under another shape) and an index is computed from the    *)
(* shape.  Element values are integers; indices are 1-based here and       *)
(* 0-based in the source, axes keep the source's numbers.                  *)
(*                                                                         *)
(* A layer instance is the record self of its attributes.  Each            *)
(* specification below follows one layer instance from its construction    *)
(* (Init) through build to call, as Keras's Layer.__call__ drives it:      *)
(* build runs once, before the first call, and an exception ends the run.  *)
(***************************************************************************)
EXTENDS Integers, Sequences, FiniteSets, TLC

VARIABLES
    pc,       \* where the layer instance is in its life
    config,   \* the keyword arguments at hand: the constructor's, then get_config's
    self,     \* the layer instance's attributes
    inputs,   \* what the layer is called on
    output,   \* what the last call returned
    raised,   \* the exception the last operation raised, "none" if it returned
    graph,    \* the variables created so far, in order
    used,     \* per call, in order, the variables the call read
    clone     \* the layer from_config rebuilt

vars == <<pc, config, self, inputs, output, raised, graph, used, clone>>

(***************************************************************************)
(* Bounds of the model.                                                    *)
(***************************************************************************)
\* Batch sizes, field counts and embedding (or feature) sizes of the inputs
\* whose elements take every value.
MaxBatch == 2
MaxFields == 3
MaxDim == 2
\* The most elements such an input holds.
MaxCells == 6
\* The most elements a rank-2 input holds.
MaxFlat == 4
\* Elements are -MaxVal, 0 or MaxVal.
MaxVal == 1
\* Field counts and embedding sizes of the inputs filled with one value.
BigFields == 3
BigDim == 4
\* The most tensors in an input list.
MaxInputs == 3
\* The most cross layers of a CrossNet.
MaxLayers == 2
\* The most calls of one layer instance.
MaxCalls == 2

Vals == {0 - MaxVal, 0, MaxVal}

(***************************************************************************)
(* Tensors.                                                                *)
(***************************************************************************)
RECURSIVE SumSeq(_)
SumSeq(s) == IF s = <<>> THEN 0 ELSE Head(s) + SumSeq(Tail(s))

RECURSIVE Prod(_)
Prod(s) == IF s = <<>> THEN 1 ELSE Head(s) * Prod(Tail(s))

Max(a, b) == IF a >= b THEN a ELSE b

None == [shape |-> <<0>>, flat |-> <<>>]

Tensor(shape, flat) == [shape |-> shape, flat |-> flat]

\* The number of elements one step along axis k (1-based) skips.
Stride(shape, k) == Prod(SubSeq(shape, k + 1, Len(shape)))

\* The index (1-based on every axis) of the element at row-major offset n.
Unravel(n, shape) ==
    [k \in 1..Len(shape) |-> ((n \div Stride(shape, k)) % shape[k]) + 1]

\* The place in flat of the element at index idx.
Ravel(idx, shape) ==
    1 + SumSeq([k \in 1..Len(shape) |-> (idx[k] - 1) * Stride(shape, k)])

At(t, idx) == t.flat[Ravel(idx, t.shape)]

At2(t, i, j) == At(t, <<i, j>>)

At3(t, i, j, k) == At(t, <<i, j, k>>)

\* The one element of a singleton set.  An operator below computes its
\* result in the form The({e(a) : a \in {x}}), which is e(x) with x
\* evaluated once.
The(S) == CHOOSE r \in S : TRUE

\* The tensor of the shape whose element at idx is F(idx).
Mk(shape, F(_)) ==
    The({Tensor(s, [n \in 1..Prod(s) |-> F(Unravel(n - 1, s))] \o <<>>) :
            s \in {shape}})

K_ndim(x) == Len(x.shape)

\* An axis as the source writes it (0-based, negative from the end), 1-based.
Axis(x, axis) == IF axis < 0 THEN K_ndim(x) + axis + 1 ELSE axis + 1

\* K.reshape(x, shape): the elements in row-major order under the new shape;
\* one entry of shape may be -1 and is then inferred from the element count.
K_reshape(x, shape) ==
    The({LET known == Prod([n \in 1..Len(shape) |->
                               IF shape[n] = -1 THEN 1 ELSE shape[n]])
         IN  Tensor([n \in 1..Len(shape) |->
                        IF shape[n] = -1 THEN Len(a.flat) \div known ELSE shape[n]],
                    a.flat) : a \in {x}})

\* Broadcasting: shapes are aligned at their last axes, a missing axis or
\* an axis of size 1 is repeated.
PadLeft(shape, r) == [k \in 1..r |->
    IF k <= r - Len(shape) THEN 1 ELSE shape[k - (r - Len(shape))]]

BShape(s1, s2) ==
    LET r == Max(Len(s1), Len(s2))
    IN  [k \in 1..r |-> Max(PadLeft(s1, r)[k], PadLeft(s2, r)[k])]

BAt(t, idx) ==
    LET off == Len(idx) - K_ndim(t)
    IN  At(t, [k \in 1..K_ndim(t) |->
                  IF t.shape[k] = 1 THEN 1 ELSE idx[k + off]])

\* x * y, x - y, x + y: elementwise, with broadcasting.
Mul(x, y) ==
    The({Mk(BShape(a.shape, b.shape), LAMBDA idx : BAt(a, idx) * BAt(b, idx)) :
            a \in {x}, b \in {y}})

Sub(x, y) ==
    The({Mk(BShape(a.shape, b.shape), LAMBDA idx : BAt(a, idx) - BAt(b, idx)) :
            a \in {x}, b \in {y}})

Add(x, y) ==
    The({Mk(BShape(a.shape, b.shape), LAMBDA idx : BAt(a, idx) + BAt(b, idx)) :
            a \in {x}, b \in {y}})

K_square(x) ==
    The({Mk(a.shape, LAMBDA idx : At(a, idx) * At(a, idx)) : a \in {x}})

\* K.sum(x, axis, keepdims) and tf.reduce_sum(x, axis): the sum along one
\* axis; the reduced axis stays with size 1 (keepdims) or is dropped.
K_sum(x, axis, keepdims) ==
    The({LET a == Axis(t, axis)
             kept == Mk([t.shape EXCEPT ![a] = 1], LAMBDA idx :
                         SumSeq([m \in 1..t.shape[a] |->
                                    At(t, [idx EXCEPT ![a] = m])]))
         IN  IF keepdims THEN kept
             ELSE Tensor(SubSeq(t.shape, 1, a - 1)
                             \o SubSeq(t.shape, a + 1, K_ndim(t)),
                         kept.flat) : t \in {x}})

\* tf.expand_dims(x, axis): an axis of size 1 inserted at axis.
tf_expand_dims(x, axis) ==
    The({Tensor(SubSeq(t.shape, 1, axis) \o <<1>>
                    \o SubSeq(t.shape, axis + 1, K_ndim(t)),
                t.flat) : t \in {x}})

\* tf.transpose(x, perm): axis k of the result is axis perm[k] of x.
tf_transpose(x, perm) ==
    The({Mk([k \in 1..K_ndim(t) |-> t.shape[perm[k] + 1]], LAMBDA idx :
            At(t, [a \in 1..K_ndim(t) |->
                      idx[CHOOSE k \in 1..K_ndim(t) : perm[k] + 1 = a]])) :
            t \in {x}})

\* K.concatenate(tensors, axis): the tensors one after the other along the
\* axis.
K_concatenate(tensors, axis) ==
    The({LET a == axis + 1
             total == SumSeq([n \in 1..Len(ts) |-> ts[n].shape[a]])
             \* the tensor that holds place m of the axis, and the place in it
             owner(m) == CHOOSE n \in 1..Len(ts) :
                 /\ SumSeq([q \in 1..(n - 1) |-> ts[q].shape[a]]) < m
                 /\ m <= SumSeq([q \in 1..n |-> ts[q].shape[a]])
             within(m) ==
                 m - SumSeq([q \in 1..(owner(m) - 1) |-> ts[q].shape[a]])
         IN  Mk([ts[1].shape EXCEPT ![a] = total], LAMBDA idx :
                 At(ts[owner(idx[a])], [idx EXCEPT ![a] = within(idx[a])])) :
            ts \in {tensors}})

\* tf.matmul(x, y) of rank-3 tensors: a matrix product per batch row.
tf_matmul(x, y) ==
    The({Mk(<<a.shape[1], a.shape[2], b.shape[3]>>, LAMBDA idx :
            SumSeq([m \in 1..a.shape[3] |->
                At(a, <<idx[1], idx[2], m>>) * At(b, <<idx[1], m, idx[3]>>)])) :
            a \in {x}, b \in {y}})

\* K.dot(x, y) of a rank-3 x and a rank-2 y: the last axis of x against the
\* first axis of y.
K_dot(x, y) ==
    The({Mk(<<a.shape[1], a.shape[2], b.shape[2]>>, LAMBDA idx :
            SumSeq([m \in 1..a.shape[3] |->
                At(a, <<idx[1], idx[2], m>>) * At(b, <<m, idx[3]>>)])) :
            a \in {x}, b \in {y}})

\* 0.5 * n for an integer n, exactly: whole + half/2 with half in {0, 1}.
Half(n) == [whole |-> n \div 2, half |-> n % 2]

\* 0.5 * x, elementwise.
HalfOf(x) == The({Mk(a.shape, LAMBDA idx : Half(At(a, idx))) : a \in {x}})

\* K.bias_add(x, bias, data_format='channels_last') raises ValueError: the
\* bias has neither rank 1 nor the rank of x less one, or, for a rank-2 x
\* (tf.nn.bias_add), its size is not that of x's last axis.
K_bias_add_raises(x, bias) ==
    \/ K_ndim(bias) # 1 /\ K_ndim(bias) # K_ndim(x) - 1
    \/ K_ndim(x) = 2 /\ bias.shape[1] # x.shape[2]

\* K.bias_add(x, bias, data_format='channels_last') when it returns: for a
\* rank-3 x the bias reshaped to (1, 1, n) or (1,) + its shape and added
\* with broadcasting, for a rank-2 x added along the last axis.
K_bias_add(x, bias) ==
    IF K_ndim(x) = 3 /\ K_ndim(bias) = 2
    THEN Add(x, K_reshape(bias, <<1>> \o bias.shape))
    ELSE Add(x, bias)

\* An activation function on one value: 'linear' and 'relu' are computed,
\* any other one (sigmoid, ...) is kept as the term fn(of).
Activate(activation, v) ==
    CASE activation = "linear" -> v
      [] activation = "relu" -> Max(0, v)
      [] OTHER -> [fn |-> activation, of |-> v]

\* Activation(activation)(x): elementwise.
Activation(activation, x) ==
    The({Mk(a.shape, LAMBDA idx : Activate(activation, At(a, idx))) : a \in {x}})

\* A tensor of the shape whose elements are not computed: element n is the
\* term op(n).
Symbolic(shape, op) ==
    Tensor(shape, [n \in 1..Prod(shape) |-> [fn |-> op, of |-> n]])

\* None as a dimension of a shape.
NoneDim == 0 - 1

(***************************************************************************)
(* Inputs.  What a layer is called on is a record [list, t]: one tensor    *)
(* (list = FALSE, t = <<x>>) or a Python list of tensors.  Its shape, what *)
(* build receives, is the record [list, s] of the tensors' shapes.         *)
(***************************************************************************)
One(x) == [list |-> FALSE, t |-> <<x>>]

List(ts) == [list |-> TRUE, t |-> ts]

ShapeOf(in) == [list |-> in.list, s |-> [n \in 1..Len(in.t) |-> in.t[n].shape]]

\* len(input_shape): of a list its length, of one shape its rank.
PyLen(input_shape) ==
    IF input_shape.list THEN Len(input_shape.s) ELSE Len(input_shape.s[1])

TensorsOf(shape) == {Tensor(shape, f) : f \in [1..Prod(shape) -> Vals]}

\* The tensor of the shape filled with v.
Full(shape, v) == Tensor(shape, [n \in 1..Prod(shape) |-> v])

Shapes3 ==
    {<<b, f, d>> : b \in 1..MaxBatch, f \in 1..MaxFields, d \in 1..MaxDim}

Shapes2 == {<<b, d>> : b \in 1..MaxBatch, d \in 1..MaxDim}

BigShapes3 ==
    {<<b, f, d>> : b \in 1..MaxBatch, f \in 1..BigFields, d \in 1..BigDim}

Small(S) == {s \in S : Prod(s) <= MaxCells}

\* P holds of one of the rank-3 input tensors: every small one, and the
\* bigger ones filled with one value.
SomeRank3(P(_)) ==
    \/ \E s \in Small(Shapes3) : \E f \in [1..Prod(s) -> Vals] : P(Tensor(s, f))
    \/ \E s \in BigShapes3 \ Small(Shapes3) : \E v \in Vals : P(Full(s, v))

\* P holds of one of the rank-2 input tensors.
SomeRank2(P(_)) ==
    \E s \in {s \in Shapes2 : Prod(s) <= MaxFlat} :
        \E f \in [1..Prod(s) -> Vals] : P(Tensor(s, f))

\* P holds of a list of n >= 2 tensors of one shape (batch, 1, dim), what
\* the pairwise layers take.
SomeEmbeddingList(P(_)) ==
    \E n \in 2..MaxInputs : \E b \in 1..MaxBatch : \E d \in 1..MaxDim :
        /\ n * b * d <= MaxCells
        /\ \E f \in [1..n -> [1..(b * d) -> Vals]] :
              P([i \in 1..n |-> Tensor(<<b, 1, d>>, f[i])])

\* The tensor of the shape with 1 at place n and 0 elsewhere.
Unit(shape, n) == Tensor(shape, [m \in 1..Prod(shape) |-> IF m = n THEN 1 ELSE 0])

\* The values a weight of the shape may hold (initializers other than Zeros
\* draw them at random, and the optimizer updates them between calls): the
\* tensors filled with one value and the unit tensors.
WeightTensors(shape) ==
    {Full(shape, v) : v \in Vals} \cup {Unit(shape, n) : n \in 1..Prod(shape)}

\* The weights a build allocates, one per add_weight, in order: each a
\* record [name, value].  specs are the [name, shape, init] of the calls.
RECURSIVE Allocations(_)
Allocations(specs) ==
    IF specs = <<>> THEN {<<>>}
    ELSE {<<[name |-> Head(specs).name, value |-> w]>> \o rest :
            w \in (IF Head(specs).init = "Zeros"
                   THEN {Full(Head(specs).shape, 0)}
                   ELSE WeightTensors(Head(specs).shape)),
            rest \in Allocations(Tail(specs))}

\* self.<name>, a weight add_weight returned.
Weight(layer, name) ==
    (CHOOSE w \in {layer.weights[n] : n \in 1..Len(layer.weights)} :
        w.name = name).value

NoWeights == <<>>

(***************************************************************************)
(* Layer.__init__ of Keras with its keywords, as far as the layers here    *)
(* use it:                                                                 *)
(* it takes the keywords name and trainable and refuses any other.         *)
(***************************************************************************)
BaseKwargs == {"name", "trainable"}

Arg(kwargs, key, default) == IF key \in DOMAIN kwargs THEN kwargs[key] ELSE default

\* A call of cls with the keywords kwargs, given the parameters `required` and `optional` of cls's
\* __init__: Python raises TypeError when a required one is missing, Keras
\* when a keyword is none of the class's or the base's.
BadKwargs(kwargs, required, optional) ==
    \/ ~(required \subseteq DOMAIN kwargs)
    \/ ~(DOMAIN kwargs \subseteq (required \cup optional \cup BaseKwargs))

NoLayer == [class |-> "none", built |-> FALSE, weights |-> NoWeights]

Attrs(class, kwargs, attrs) ==
    [class |-> class, built |-> FALSE, weights |-> NoWeights,
     name |-> Arg(kwargs, "name", "auto"),
     trainable |-> Arg(kwargs, "trainable", TRUE),
     attrs |-> attrs]

\* dict(list(base.items()) + list(config.items())): config's entries win.
Merge(base, conf) ==
    [k \in DOMAIN base \cup DOMAIN conf |->
        IF k \in DOMAIN conf THEN conf[k] ELSE base[k]]

\* Layer.get_config of Keras.
Base_get_config(layer) == [name |-> layer.name, trainable |-> layer.trainable]

(***************************************************************************)
(* class FM                                                                *)
(***************************************************************************)
FM_init(kwargs) ==
    IF BadKwargs(kwargs, {}, {})
    THEN [raised |-> "TypeError", layer |-> NoLayer]
    ELSE [raised |-> "none", layer |-> Attrs("FM", kwargs, <<>>)]

\* FM.build: the exception it raises ("none" when it returns) and the
\* weights it adds.
FM_build(layer, input_shape) ==
    IF PyLen(input_shape) # 3
    THEN [raised |-> "ValueError", weights |-> <<>>]
    ELSE [raised |-> "none", weights |-> <<>>]

FM_call_NoSquare(layer, in) ==
    LET x == in.t[1]
        square_of_sum == K_sum(x, 1, TRUE)
        sum_of_square == K_sum(Mul(x, x), 1, TRUE)
        cross_term == Sub(square_of_sum, sum_of_square)
    IN  [raised |-> "none", out |-> HalfOf(K_sum(cross_term, 2, FALSE))]

\* FM.call: the exception it raises and the tensor it returns.
FM_call(layer, in) ==
    IF K_ndim(in.t[1]) # 3
    THEN [raised |-> "ValueError", out |-> None]
    ELSE LET concated_embeds_value == in.t[1]
             square_of_sum == K_square(K_sum(concated_embeds_value, 1, TRUE))
             sum_of_square ==
                 K_sum(Mul(concated_embeds_value, concated_embeds_value), 1, TRUE)
             cross_term == Sub(square_of_sum, sum_of_square)
         IN  [raised |-> "none", out |-> HalfOf(K_sum(cross_term, 2, FALSE))]

(***************************************************************************)
(* The pairs (i, j), i < j, the pairwise layers enumerate: the lists row   *)
(* and col their nested loops append to (0-based, as in the source).       *)
(***************************************************************************)
RECURSIVE PairLoop(_, _, _, _)
PairLoop(i, j, num_inputs, acc) ==
    IF i >= num_inputs - 1 THEN acc
    ELSE IF j >= num_inputs THEN PairLoop(i + 1, i + 2, num_inputs, acc)
    ELSE PairLoop(i, j + 1, num_inputs,
                  [row |-> Append(acc.row, i), col |-> Append(acc.col, j)])

Pairs_LastColumnFirst(num_inputs) ==
    LET n == (num_inputs * (num_inputs - 1)) \div 2
        ps == [c \in 1..n |->
                 CHOOSE ij \in (0..(num_inputs - 1)) \X (0..(num_inputs - 1)) :
                     /\ ij[1] < ij[2]
                     /\ c = 1 + Cardinality({kl \in (0..(num_inputs - 1)) \X (0..(num_inputs - 1)) :
                               /\ kl[1] < kl[2]
                               /\ \/ kl[2] > ij[2]
                                  \/ kl[2] = ij[2] /\ kl[1] < ij[1]})]
    IN  [row |-> [c \in 1..n |-> ps[c][1]], col |-> [c \in 1..n |-> ps[c][2]]]

Pairs(num_inputs) == PairLoop(0, 1, num_inputs, [row |-> <<>>, col |-> <<>>])

\* [embed_list[idx] for idx in row]
Gather(embed_list, row) == [c \in 1..Len(row) |-> embed_list[row[c] + 1]]

\* shape_set of the build of the three pairwise layers.
ShapeSet(input_shape) == {input_shape.s[n] : n \in 1..Len(input_shape.s)}

(***************************************************************************)
(* class InnerProductLayer                                                 *)
(***************************************************************************)
InnerProductLayer_init(kwargs) ==
    IF BadKwargs(kwargs, {}, {"reduce_sum"})
    THEN [raised |-> "TypeError", layer |-> NoLayer]
    ELSE [raised |-> "none",
          layer |-> Attrs("InnerProductLayer", kwargs,
                          [reduce_sum |-> Arg(kwargs, "reduce_sum", TRUE)])]

InnerProductLayer_build(layer, input_shape) ==
    IF ~input_shape.list \/ PyLen(input_shape) < 2
    THEN [raised |-> "ValueError", weights |-> <<>>]
    ELSE IF Cardinality(ShapeSet(input_shape)) > 1
    THEN [raised |-> "ValueError", weights |-> <<>>]
    ELSE IF Len(input_shape.s[1]) # 3 \/ input_shape.s[1][2] # 1
    THEN [raised |-> "ValueError", weights |-> <<>>]
    ELSE [raised |-> "none", weights |-> <<>>]

InnerProductLayer_call(layer, in) ==
    IF K_ndim(in.t[1]) # 3
    \* the raise evaluates K.ndim(inputs) of the list, which has no shape
    THEN [raised |-> "AttributeError", out |-> None]
    ELSE LET embed_list == in.t
             num_inputs == Len(embed_list)
             row == Pairs(num_inputs).row
             col == Pairs(num_inputs).col
             p == K_concatenate(Gather(embed_list, row), 1)
             q == K_concatenate(Gather(embed_list, col), 1)
             inner_product == Mul(p, q)
         IN  [raised |-> "none",
              out |-> IF layer.attrs.reduce_sum
                      THEN K_sum(inner_product, 2, FALSE)
                      ELSE inner_product]

InnerProductLayer_compute_output_shape(layer, input_shape) ==
    LET num_inputs == PyLen(input_shape)
        num_pairs == (num_inputs * (num_inputs - 1)) \div 2
        first == input_shape.s[1]
        embed_size == first[Len(first)]
    IN  IF layer.attrs.reduce_sum THEN <<first[1], num_pairs>>
        ELSE <<first[1], num_pairs, embed_size>>

InnerProductLayer_get_config(layer) ==
    Merge(Base_get_config(layer), [reduce_sum |-> layer.attrs.reduce_sum])

(***************************************************************************)
(* class OutterProductLayer                                                *)
(***************************************************************************)
OutterProductLayer_init(kwargs) ==
    IF BadKwargs(kwargs, {}, {"kernel_type", "seed"})
    THEN [raised |-> "TypeError", layer |-> NoLayer]
    ELSE IF Arg(kwargs, "kernel_type", "mat") \notin {"mat", "vec", "num"}
    THEN [raised |-> "ValueError", layer |-> NoLayer]
    ELSE [raised |-> "none",
          layer |-> Attrs("OutterProductLayer", kwargs,
                          [kernel_type |-> Arg(kwargs, "kernel_type", "mat"),
                           seed |-> Arg(kwargs, "seed", 1024)])]

OutterProductLayer_build(layer, input_shape) ==
    IF ~input_shape.list \/ PyLen(input_shape) < 2
    THEN [raised |-> "ValueError", weights |-> <<>>]
    ELSE IF Cardinality(ShapeSet(input_shape)) > 1
    THEN [raised |-> "ValueError", weights |-> <<>>]
    ELSE IF Len(input_shape.s[1]) # 3 \/ input_shape.s[1][2] # 1
    THEN [raised |-> "ValueError", weights |-> <<>>]
    ELSE LET num_inputs == PyLen(input_shape)
             num_pairs == (num_inputs * (num_inputs - 1)) \div 2
             first == input_shape.s[1]
             embed_size == first[Len(first)]
             shape == CASE layer.attrs.kernel_type = "mat" ->
                               <<embed_size, num_pairs, embed_size>>
                        [] layer.attrs.kernel_type = "vec" ->
                               <<num_pairs, embed_size>>
                        [] layer.attrs.kernel_type = "num" ->
                               <<num_pairs, 1>>
         IN  [raised |-> "none",
              weights |-> <<[name |-> "kernel", shape |-> shape,
                             init |-> "glorot_uniform"]>>]

OutterProductLayer_call_SumAll(layer, in) ==
    LET p == K_concatenate(Gather(in.t, Pairs(Len(in.t)).row), 1)
        q == K_concatenate(Gather(in.t, Pairs(Len(in.t)).col), 1)
        k == tf_expand_dims(Weight(layer, "kernel"), 0)
    IN  [raised |-> "none",
         out |-> K_sum(K_sum(Mul(Mul(p, q), k), -1, TRUE), 1, FALSE)]

\* A 'mat' call with the kernel's first and last axes exchanged: p against
\* the first axis, q against the last.
OutterProductLayer_call_KernelTransposed(layer, in) ==
    LET p == K_concatenate(Gather(in.t, Pairs(Len(in.t)).row), 1)
        q == K_concatenate(Gather(in.t, Pairs(Len(in.t)).col), 1)
        kernel == Weight(layer, "kernel")
    IN  IF layer.attrs.kernel_type = "mat"
        THEN [raised |-> "none",
              out |-> K_sum(
                          Mul(tf_transpose(
                                  K_sum(Mul(tf_expand_dims(p, 1),
                                            tf_transpose(kernel, <<2, 1, 0>>)),
                                        -1, FALSE),
                                  <<0, 2, 1>>),
                              q),
                          -1, FALSE),
              reads |-> {"kernel"}]
        ELSE [raised |-> "none",
              out |-> K_sum(Mul(Mul(p, q), tf_expand_dims(kernel, 0)), -1, FALSE),
              reads |-> {"kernel"}]

OutterProductLayer_call(layer, in) ==
    IF K_ndim(in.t[1]) # 3
    THEN [raised |-> "AttributeError", out |-> None]
    ELSE LET embed_list == in.t
             num_inputs == Len(embed_list)
             row == Pairs(num_inputs).row
             col == Pairs(num_inputs).col
             p == K_concatenate(Gather(embed_list, row), 1)
             q == K_concatenate(Gather(embed_list, col), 1)
             kernel == Weight(layer, "kernel")
         IN  IF layer.attrs.kernel_type = "mat"
             THEN LET p1 == tf_expand_dims(p, 1)
                      kp == K_sum(
                                Mul(tf_transpose(K_sum(Mul(p1, kernel), -1, FALSE),
                                                 <<0, 2, 1>>),
                                    q),
                                -1, FALSE)
                  IN  [raised |-> "none", out |-> kp, reads |-> {"kernel"}]
             ELSE LET k == tf_expand_dims(kernel, 0)
                      kp == K_sum(Mul(Mul(p, q), k), -1, FALSE)
                  IN  [raised |-> "none", out |-> kp, reads |-> {"kernel"}]

OutterProductLayer_compute_output_shape(layer, input_shape) ==
    LET num_inputs == PyLen(input_shape)
        num_pairs == (num_inputs * (num_inputs - 1)) \div 2
    IN  <<NoneDim, num_pairs>>    \* (None, num_pairs): None is written -1

OutterProductLayer_get_config(layer) ==
    Merge(Base_get_config(layer),
          [kernel_type |-> layer.attrs.kernel_type, seed |-> layer.attrs.seed])

(***************************************************************************)
(* class CrossNet                                                          *)
(***************************************************************************)
CrossNet_init(kwargs) ==
    IF BadKwargs(kwargs, {}, {"layer_num", "l2_reg", "seed"})
    THEN [raised |-> "TypeError", layer |-> NoLayer]
    ELSE [raised |-> "none",
          layer |-> Attrs("CrossNet", kwargs,
                          [layer_num |-> Arg(kwargs, "layer_num", 1),
                           l2_reg |-> Arg(kwargs, "l2_reg", 0),
                           seed |-> Arg(kwargs, "seed", 1024)])]

\* 'kernel' + str(i), 'bias' + str(i)
KernelName(i) == "kernel" \o ToString(i)

BiasName(i) == "bias" \o ToString(i)

\* A build that allocates the first kernel and bias whatever layer_num is.
CrossNet_build_AtLeastOne(layer, input_shape) ==
    IF PyLen(input_shape) # 2
    THEN [raised |-> "ValueError", weights |-> <<>>]
    ELSE LET dim == input_shape.s[1][Len(input_shape.s[1])]
             num == Max(1, layer.attrs.layer_num)
         IN  [raised |-> "none",
              weights |->
                  [i \in 1..num |-> [name |-> KernelName(i - 1),
                                     shape |-> <<dim, 1>>, init |-> "glorot_normal"]]
                  \o [i \in 1..num |-> [name |-> BiasName(i - 1),
                                        shape |-> <<dim, 1>>, init |-> "Zeros"]]]

CrossNet_build(layer, input_shape) ==
    IF PyLen(input_shape) # 2
    THEN [raised |-> "ValueError", weights |-> <<>>]
    ELSE LET dim == input_shape.s[1][Len(input_shape.s[1])]
             kernels == [i \in 1..layer.attrs.layer_num |->
                 [name |-> KernelName(i - 1), shape |-> <<dim, 1>>,
                  init |-> "glorot_normal"]]
             bias == [i \in 1..layer.attrs.layer_num |->
                 [name |-> BiasName(i - 1), shape |-> <<dim, 1>>,
                  init |-> "Zeros"]]
         IN  [raised |-> "none", weights |-> kernels \o bias]

\* A loop without the residual term: x_l' = dot_ + bias.
RECURSIVE CrossLoop_NoResidual(_, _, _, _)
CrossLoop_NoResidual(layer, i, x_0, x_l) ==
    IF i >= layer.attrs.layer_num THEN x_l
    ELSE LET dot_ == K_dot(tf_matmul(x_0, tf_transpose(x_l, <<0, 2, 1>>)),
                           Weight(layer, KernelName(i)))
         IN  CrossLoop_NoResidual(layer, i + 1, x_0,
                                  K_bias_add(dot_, Weight(layer, BiasName(i))))

\* A loop that crosses with the running state in place of x_0:
\* dot_ = x_l x_l^T kernel.
RECURSIVE CrossLoop_RunningState(_, _, _, _)
CrossLoop_RunningState(layer, i, x_0, x_l) ==
    IF i >= layer.attrs.layer_num THEN x_l
    ELSE LET dot_ == K_dot(tf_matmul(x_l, tf_transpose(x_l, <<0, 2, 1>>)),
                           Weight(layer, KernelName(i)))
         IN  CrossLoop_RunningState(layer, i + 1, x_0,
                 K_bias_add(Add(dot_, x_l), Weight(layer, BiasName(i))))

\* The loop of CrossNet.call from iteration i on: x_l after the last one.
RECURSIVE CrossLoop(_, _, _, _)
CrossLoop(layer, i, x_0, x_l) ==
    IF i >= layer.attrs.layer_num THEN x_l
    ELSE LET dot_ == K_dot(tf_matmul(x_0, tf_transpose(x_l, <<0, 2, 1>>)),
                           Weight(layer, KernelName(i)))
         IN  CrossLoop(layer, i + 1, x_0,
                       K_bias_add(Add(dot_, x_l), Weight(layer, BiasName(i))))

CrossNet_call(layer, in) ==
    IF K_ndim(in.t[1]) # 2
    THEN [raised |-> "ValueError", out |-> None]
    ELSE LET x == in.t[1]
             dim == x.shape[Len(x.shape)]
             x_0 == K_reshape(x, <<0 - 1, dim, 1>>)
             x_l == CrossLoop(layer, 0, x_0, x_0)
         IN  [raised |-> "none", out |-> K_reshape(x_l, <<0 - 1, dim>>),
              reads |-> {layer.weights[n].name : n \in 1..Len(layer.weights)}]

CrossNet_get_config(layer) ==
    Merge(Base_get_config(layer),
          [layer_num |-> layer.attrs.layer_num, l2_reg |-> layer.attrs.l2_reg,
           seed |-> layer.attrs.seed])

(***************************************************************************)
(* The layers a call creates (Dense, BatchNormalization) and their         *)
(* variables.  uid tells one created layer from another: the number of     *)
(* variables the graph held when it was created, plus one.                 *)
(***************************************************************************)
DenseVars(uid) ==
    <<[layer |-> "Dense", uid |-> uid, var |-> "kernel"],
      [layer |-> "Dense", uid |-> uid, var |-> "bias"]>>

BatchNormalizationVars(uid) ==
    <<[layer |-> "BatchNormalization", uid |-> uid, var |-> "gamma"],
      [layer |-> "BatchNormalization", uid |-> uid, var |-> "beta"],
      [layer |-> "BatchNormalization", uid |-> uid, var |-> "moving_mean"],
      [layer |-> "BatchNormalization", uid |-> uid, var |-> "moving_variance"]>>

(***************************************************************************)
(* class AFMLayer                                                          *)
(***************************************************************************)
AFMLayer_init(kwargs) ==
    IF BadKwargs(kwargs, {}, {"attention_factor", "l2_reg_w", "keep_prob", "seed"})
    THEN [raised |-> "TypeError", layer |-> NoLayer]
    ELSE [raised |-> "none",
          layer |-> Attrs("AFMLayer", kwargs,
                          [attention_factor |-> Arg(kwargs, "attention_factor", 4),
                           l2_reg_w |-> Arg(kwargs, "l2_reg_w", 0),
                           keep_prob |-> Arg(kwargs, "keep_prob", 1),
                           seed |-> Arg(kwargs, "seed", 1024)])]

\* A build without the check of the rank and of the field axis.
AFMLayer_build_NoShapeCheck(layer, input_shape) ==
    IF ~input_shape.list \/ PyLen(input_shape) < 2
    THEN [raised |-> "ValueError", weights |-> <<>>]
    ELSE IF Cardinality(ShapeSet(input_shape)) > 1
    THEN [raised |-> "ValueError", weights |-> <<>>]
    ELSE LET first == input_shape.s[1]
         IN  [raised |-> "none",
              weights |-> <<[name |-> "projection_h",
                             shape |-> <<layer.attrs.attention_factor, 1>>,
                             init |-> "glorot_normal"],
                            [name |-> "projection_p",
                             shape |-> <<first[Len(first)], 1>>,
                             init |-> "glorot_normal"]>>]

AFMLayer_build(layer, input_shape) ==
    IF ~input_shape.list \/ PyLen(input_shape) < 2
    THEN [raised |-> "ValueError", weights |-> <<>>]
    ELSE IF Cardinality(ShapeSet(input_shape)) > 1
    THEN [raised |-> "ValueError", weights |-> <<>>]
    ELSE IF Len(input_shape.s[1]) # 3 \/ input_shape.s[1][2] # 1
    THEN [raised |-> "ValueError", weights |-> <<>>]
    ELSE LET embedding_size == input_shape.s[1][3]
         IN  [raised |-> "none",
              weights |-> <<[name |-> "projection_h",
                             shape |-> <<layer.attrs.attention_factor, 1>>,
                             init |-> "glorot_normal"],
                            [name |-> "projection_p",
                             shape |-> <<embedding_size, 1>>,
                             init |-> "glorot_normal"]>>]

\* AFMLayer.call: the attention network is a Dense layer made in the call;
\* the output, a softmax-weighted sum, is not computed, only its shape.
AFMLayer_call(layer, in, g) ==
    IF K_ndim(in.t[1]) # 3
    THEN [raised |-> IF in.list THEN "AttributeError" ELSE "ValueError",
          out |-> None]
    ELSE [raised |-> "none",
          out |-> Symbolic(<<in.t[1].shape[1], 1>>, "afm_out"),
          created |-> DenseVars(Len(g) + 1),
          reads |-> {"projection_h", "projection_p"}]

AFMLayer_compute_output_shape(layer, input_shape) == <<NoneDim, 1>>

AFMLayer_get_config(layer) ==
    Merge(Base_get_config(layer),
          [attention_factor |-> layer.attrs.attention_factor,
           l2_reg_w |-> layer.attrs.l2_reg_w,
           keep_prob |-> layer.attrs.keep_prob,
           seed |-> layer.attrs.seed])

(***************************************************************************)
(* class PredictionLayer                                                   *)
(***************************************************************************)
PredictionLayer_init(kwargs) ==
    IF BadKwargs(kwargs, {}, {"activation", "use_bias"})
    THEN [raised |-> "TypeError", layer |-> NoLayer]
    ELSE [raised |-> "none",
          layer |-> Attrs("PredictionLayer", kwargs,
                          [activation |-> Arg(kwargs, "activation", "sigmoid"),
                           use_bias |-> Arg(kwargs, "use_bias", TRUE)])]

PredictionLayer_build(layer, input_shape) ==
    [raised |-> "none",
     weights |-> IF layer.attrs.use_bias
                 THEN <<[name |-> "global_bias", shape |-> <<1>>,
                         init |-> "Zeros"]>>
                 ELSE <<>>]

\* A call that does not add the bias.
PredictionLayer_call_NoBias(layer, in) ==
    [raised |-> "none",
     out |-> K_reshape(Activation(layer.attrs.activation, in.t[1]), <<0 - 1, 1>>),
     reads |-> {}]

PredictionLayer_call(layer, in) ==
    IF layer.attrs.use_bias
       /\ K_bias_add_raises(in.t[1], Weight(layer, "global_bias"))
    THEN [raised |-> "ValueError", out |-> None]
    ELSE LET x == IF layer.attrs.use_bias
                  THEN K_bias_add(in.t[1], Weight(layer, "global_bias"))
                  ELSE in.t[1]
             output_ == Activation(layer.attrs.activation, x)
         IN  [raised |-> "none",
              out |-> K_reshape(output_, <<0 - 1, 1>>),
              reads |-> IF layer.attrs.use_bias THEN {"global_bias"} ELSE {}]

PredictionLayer_compute_output_shape(layer, input_shape) == <<NoneDim, 1>>

PredictionLayer_get_config(layer) ==
    Merge(Base_get_config(layer),
          [activation |-> layer.attrs.activation,
           use_bias |-> layer.attrs.use_bias])

(***************************************************************************)
(* class MLP                                                               *)
(***************************************************************************)
MLP_init(kwargs) ==
    IF BadKwargs(kwargs, {"hidden_size", "activation", "l2_reg", "keep_prob",
                          "use_bn", "seed"}, {})
    THEN [raised |-> "TypeError", layer |-> NoLayer]
    ELSE [raised |-> "none",
          layer |-> Attrs("MLP", kwargs,
                          [hidden_size |-> kwargs.hidden_size,
                           activation |-> kwargs.activation,
                           keep_prob |-> kwargs.keep_prob,
                           seed |-> kwargs.seed,
                           l2_reg |-> kwargs.l2_reg,
                           use_bn |-> kwargs.use_bn])]

MLP_build(layer, input_shape) == [raised |-> "none", weights |-> <<>>]

\* The output of a Keras layer applied in a call to the tensor x: its values
\* are not computed, its term is the layers applied since the call's input,
\* in order, this one last.
Apply(op, x, shape) ==
    [shape |-> shape,
     flat |-> [n \in 1..Prod(shape) |-> [fn |-> op.layer, of |-> n]],
     term |-> Append(IF "term" \in DOMAIN x THEN x.term ELSE <<>>, op)]

\* Dropout(rate)(x)
Dropout(rate, x) ==
    Apply([layer |-> "Dropout", units |-> 0, rate |-> rate, activation |-> "none"],
          x, x.shape)

\* Dense(units, activation=None)(x): the last axis becomes units.
Dense(units, x) ==
    Apply([layer |-> "Dense", units |-> units, rate |-> 0, activation |-> "none"],
          x, [x.shape EXCEPT ![Len(x.shape)] = units])

\* BatchNormalization()(x)
BatchNormalization(x) ==
    Apply([layer |-> "BatchNormalization", units |-> 0, rate |-> 0,
           activation |-> "none"],
          x, x.shape)

\* Activation(activation)(x) on a tensor whose values are not computed.
ActivationLayer(activation, x) ==
    Apply([layer |-> "Activation", units |-> 0, rate |-> 0,
           activation |-> activation],
          x, x.shape)

\* A loop that normalizes after the activation.
RECURSIVE MLPLoop_ActivationFirst(_, _, _, _)
MLPLoop_ActivationFirst(layer, l, g, st) ==
    IF l >= Len(layer.attrs.hidden_size) THEN st
    ELSE LET dense == DenseVars(Len(g) + Len(st.created) + 1)
             bn == IF layer.attrs.use_bn
                   THEN BatchNormalizationVars(
                            Len(g) + Len(st.created) + Len(dense) + 1)
                   ELSE <<>>
             fc1 == Dense(layer.attrs.hidden_size[l + 1], st.deep_input)
             fc2 == ActivationLayer(layer.attrs.activation, fc1)
             fc3 == IF layer.attrs.use_bn THEN BatchNormalization(fc2) ELSE fc2
             fc4 == Dropout(1 - layer.attrs.keep_prob, fc3)
         IN  MLPLoop_ActivationFirst(layer, l + 1, g,
                 [deep_input |-> fc4, created |-> st.created \o dense \o bn])

\* The loop of MLP.call from iteration l on.  st is the state the
\* iterations before left: deep_input, and the variables their layers
\* created.
RECURSIVE MLPLoop(_, _, _, _)
MLPLoop(layer, l, g, st) ==
    IF l >= Len(layer.attrs.hidden_size) THEN st
    ELSE LET dense == DenseVars(Len(g) + Len(st.created) + 1)
             bn == IF layer.attrs.use_bn
                   THEN BatchNormalizationVars(
                            Len(g) + Len(st.created) + Len(dense) + 1)
                   ELSE <<>>
             fc1 == Dense(layer.attrs.hidden_size[l + 1], st.deep_input)
             fc2 == IF layer.attrs.use_bn THEN BatchNormalization(fc1) ELSE fc1
             fc3 == ActivationLayer(layer.attrs.activation, fc2)
             fc4 == Dropout(1 - layer.attrs.keep_prob, fc3)
         IN  MLPLoop(layer, l + 1, g,
                     [deep_input |-> fc4, created |-> st.created \o dense \o bn])

\* MLP.call: the values of the output are not computed, its shape and the
\* layers applied are.
MLP_call(layer, in, g) ==
    \* the state after the loop
    LET st == The({MLPLoop(layer, 0, g,
                           [deep_input |-> Dropout(1 - layer.attrs.keep_prob, x),
                            created |-> <<>>]) : x \in {in.t[1]}})
    IN  [raised |-> "none",
         out |-> st.deep_input,
         created |-> st.created,
         reads |-> {}]

MLP_compute_output_shape(layer, input_shape) ==
    LET hidden_size == layer.attrs.hidden_size
        shape == input_shape.s[1]
    IN  IF Len(hidden_size) > 0
        THEN SubSeq(shape, 1, Len(shape) - 1) \o <<hidden_size[Len(hidden_size)]>>
        ELSE shape

MLP_get_config(layer) ==
    Merge(Base_get_config(layer),
          [activation |-> layer.attrs.activation,
           hidden_size |-> layer.attrs.hidden_size,
           l2_reg |-> layer.attrs.l2_reg,
           use_bn |-> layer.attrs.use_bn,
           keep_prob |-> layer.attrs.keep_prob,
           seed |-> layer.attrs.seed])

(***************************************************************************)
(* class BiInteractionPooling                                              *)
(***************************************************************************)
BiInteractionPooling_init(kwargs) ==
    IF BadKwargs(kwargs, {}, {})
    THEN [raised |-> "TypeError", layer |-> NoLayer]
    ELSE [raised |-> "none", layer |-> Attrs("BiInteractionPooling", kwargs, <<>>)]

BiInteractionPooling_build(layer, input_shape) ==
    IF PyLen(input_shape) # 3
    THEN [raised |-> "ValueError", weights |-> <<>>]
    ELSE [raised |-> "none", weights |-> <<>>]

\* A call that does not subtract the sum of squares.
BiInteractionPooling_call_NoSumOfSquare(layer, in) ==
    IF K_ndim(in.t[1]) # 3
    THEN [raised |-> "ValueError", out |-> None]
    ELSE [raised |-> "none",
          out |-> K_reshape(HalfOf(K_square(K_sum(in.t[1], 1, TRUE))),
                            <<0 - 1, in.t[1].shape[3]>>)]

BiInteractionPooling_call(layer, in) ==
    IF K_ndim(in.t[1]) # 3
    THEN [raised |-> "ValueError", out |-> None]
    ELSE LET concated_embeds_value == in.t[1]
             square_of_sum == K_square(K_sum(concated_embeds_value, 1, TRUE))
             sum_of_square ==
                 K_sum(Mul(concated_embeds_value, concated_embeds_value), 1, TRUE)
             cross_term == HalfOf(Sub(square_of_sum, sum_of_square))
         IN  [raised |-> "none",
              out |-> K_reshape(cross_term, <<0 - 1, in.t[1].shape[3]>>)]

BiInteractionPooling_compute_output_shape(layer, input_shape) ==
    <<NoneDim, input_shape.s[1][Len(input_shape.s[1])]>>

(***************************************************************************)
(* class LocalActivationUnit                                               *)
(***************************************************************************)
LocalActivationUnit_init(kwargs) ==
    IF BadKwargs(kwargs, {"hidden_size", "activation", "l2_reg", "keep_prob",
                          "use_bn", "seed"}, {})
    THEN [raised |-> "TypeError", layer |-> NoLayer]
    ELSE [raised |-> "none",
          layer |-> Attrs("LocalActivationUnit", kwargs,
                          [hidden_size |-> kwargs.hidden_size,
                           activation |-> kwargs.activation,
                           l2_reg |-> kwargs.l2_reg,
                           keep_prob |-> kwargs.keep_prob,
                           use_bn |-> kwargs.use_bn,
                           seed |-> kwargs.seed])]

\* The third check formats its message with '%s,%s' % (input_shape), and
\* input_shape is a list, one argument for two places: the % raises
\* TypeError before the ValueError is made.
LocalActivationUnit_build(layer, input_shape) ==
    IF ~input_shape.list \/ PyLen(input_shape) # 2
    THEN [raised |-> "ValueError", weights |-> <<>>]
    ELSE IF Len(input_shape.s[1]) # 3 \/ Len(input_shape.s[2]) # 3
    THEN [raised |-> "ValueError", weights |-> <<>>]
    ELSE IF \/ input_shape.s[1][3] # input_shape.s[2][3]
            \/ input_shape.s[1][2] # 1
    THEN [raised |-> "TypeError", weights |-> <<>>]
    ELSE [raised |-> "none", weights |-> <<>>]

LocalActivationUnit_compute_output_shape(layer, input_shape) ==
    SubSeq(input_shape.s[2], 1, 2) \o <<1>>

\* LocalActivationUnit.call: a BatchNormalization, an MLP and a Dense layer
\* are made in the call; the output is not computed, only its shape.
LocalActivationUnit_call(layer, in, g) ==
    LET query == in.t[1]
        keys == in.t[2]
        att_shape == <<keys.shape[1], keys.shape[2], 4 * keys.shape[3]>>
        bn == BatchNormalizationVars(Len(g) + 1)
        mlp == MLP_init([hidden_size |-> layer.attrs.hidden_size,
                         activation |-> layer.attrs.activation,
                         l2_reg |-> layer.attrs.l2_reg,
                         keep_prob |-> layer.attrs.keep_prob,
                         use_bn |-> layer.attrs.use_bn,
                         seed |-> layer.attrs.seed,
                         name |-> layer.name \o "mlp"]).layer
        att_out == MLP_call(mlp, One(Symbolic(att_shape, "att_input")), g \o bn)
        dense == DenseVars(Len(g) + Len(bn) + Len(att_out.created) + 1)
    IN  [raised |-> "none",
         out |-> Symbolic(LocalActivationUnit_compute_output_shape(layer, ShapeOf(in)),
                          "attention_score"),
         created |-> bn \o att_out.created \o dense,
         reads |-> {}]

LocalActivationUnit_get_config(layer) ==
    Merge(Base_get_config(layer),
          [activation |-> layer.attrs.activation,
           hidden_size |-> layer.attrs.hidden_size,
           l2_reg |-> layer.attrs.l2_reg,
           keep_prob |-> layer.attrs.keep_prob,
           seed |-> layer.attrs.seed])

(***************************************************************************)
(* The operations of a layer, by its class.                                *)
(***************************************************************************)
Layer_init(class, kwargs) ==
    CASE class = "FM" -> FM_init(kwargs)
      [] class = "AFMLayer" -> AFMLayer_init(kwargs)
      [] class = "PredictionLayer" -> PredictionLayer_init(kwargs)
      [] class = "CrossNet" -> CrossNet_init(kwargs)
      [] class = "MLP" -> MLP_init(kwargs)
      [] class = "BiInteractionPooling" -> BiInteractionPooling_init(kwargs)
      [] class = "OutterProductLayer" -> OutterProductLayer_init(kwargs)
      [] class = "InnerProductLayer" -> InnerProductLayer_init(kwargs)
      [] class = "LocalActivationUnit" -> LocalActivationUnit_init(kwargs)

Layer_build(layer, input_shape) ==
    CASE layer.class = "FM" -> FM_build(layer, input_shape)
      [] layer.class = "AFMLayer" -> AFMLayer_build(layer, input_shape)
      [] layer.class = "PredictionLayer" ->
             PredictionLayer_build(layer, input_shape)
      [] layer.class = "CrossNet" -> CrossNet_build(layer, input_shape)
      [] layer.class = "MLP" -> MLP_build(layer, input_shape)
      [] layer.class = "BiInteractionPooling" ->
             BiInteractionPooling_build(layer, input_shape)
      [] layer.class = "OutterProductLayer" ->
             OutterProductLayer_build(layer, input_shape)
      [] layer.class = "InnerProductLayer" ->
             InnerProductLayer_build(layer, input_shape)
      [] layer.class = "LocalActivationUnit" ->
             LocalActivationUnit_build(layer, input_shape)

\* g: the variables the graph holds when the call starts.
Layer_call(layer, in, g) ==
    CASE layer.class = "FM" -> FM_call(layer, in)
      [] layer.class = "AFMLayer" -> AFMLayer_call(layer, in, g)
      [] layer.class = "PredictionLayer" -> PredictionLayer_call(layer, in)
      [] layer.class = "CrossNet" -> CrossNet_call(layer, in)
      [] layer.class = "MLP" -> MLP_call(layer, in, g)
      [] layer.class = "BiInteractionPooling" ->
             BiInteractionPooling_call(layer, in)
      [] layer.class = "OutterProductLayer" -> OutterProductLayer_call(layer, in)
      [] layer.class = "InnerProductLayer" -> InnerProductLayer_call(layer, in)
      [] layer.class = "LocalActivationUnit" ->
             LocalActivationUnit_call(layer, in, g)

\* FM and BiInteractionPooling define no get_config: the base's is used.
Layer_get_config(layer) ==
    CASE layer.class = "FM" -> Base_get_config(layer)
      [] layer.class = "AFMLayer" -> AFMLayer_get_config(layer)
      [] layer.class = "PredictionLayer" -> PredictionLayer_get_config(layer)
      [] layer.class = "CrossNet" -> CrossNet_get_config(layer)
      [] layer.class = "MLP" -> MLP_get_config(layer)
      [] layer.class = "BiInteractionPooling" -> Base_get_config(layer)
      [] layer.class = "OutterProductLayer" -> OutterProductLayer_get_config(layer)
      [] layer.class = "InnerProductLayer" -> InnerProductLayer_get_config(layer)
      [] layer.class = "LocalActivationUnit" ->
             LocalActivationUnit_get_config(layer)

Field(r, key, default) == IF key \in DOMAIN r THEN r[key] ELSE default

\* The variable an add_weight of the layer itself creates.
OwnVar(name) == [layer |-> "self", uid |-> 0, var |-> name]

(***************************************************************************)
(* Actions.                                                                *)
(***************************************************************************)
\* cls called with the keywords config: the constructor.
Construct ==
    /\ pc = "start"
    /\ \E r \in {Layer_init(self.class, config)} :
           /\ raised' = r.raised
           /\ self' = IF r.raised = "none" THEN r.layer ELSE self
           /\ pc' = IF r.raised = "none" THEN "new" ELSE "failed"
    /\ UNCHANGED <<config, inputs, output, graph, used, clone>>

\* Layer.__call__ on a layer not yet built: build(input_shape).  The weights
\* added before an exception stay with the layer.
Build ==
    /\ pc = "new"
    /\ \E r \in {Layer_build(self, ShapeOf(inputs))} :
           /\ raised' = r.raised
           /\ pc' = IF r.raised = "none" THEN "built" ELSE "failed"
           /\ \E ws \in Allocations(r.weights) :
                 self' = [self EXCEPT !.built = (r.raised = "none"),
                                      !.weights = self.weights \o ws]
           /\ graph' = graph \o [n \in 1..Len(r.weights) |-> OwnVar(r.weights[n].name)]
    /\ UNCHANGED <<config, inputs, output, used, clone>>

\* call(inputs) on the built layer.
CallStep ==
    \E r \in {Layer_call(self, inputs, graph)} :
        /\ raised' = r.raised
        /\ output' = r.out
        /\ pc' = IF r.raised = "none" THEN "called" ELSE "failed"
        /\ graph' = graph \o Field(r, "created", <<>>)
        /\ used' = Append(used,
                          {OwnVar(n) : n \in Field(r, "reads", {})}
                              \cup {Field(r, "created", <<>>)[n] :
                                      n \in 1..Len(Field(r, "created", <<>>))})
        /\ UNCHANGED <<config, self, inputs, clone>>

Call == pc = "built" /\ CallStep

\* A further call of the layer, up to MaxCalls calls in all.
Recall == pc = "called" /\ Len(used) < MaxCalls /\ CallStep

\* The weights of the built layer are updated from outside (the optimizer,
\* set_weights): each gets a value of its shape.
SetWeights ==
    /\ pc = "built"
    /\ self.weights # <<>>
    /\ \E ws \in Allocations([n \in 1..Len(self.weights) |->
                                 [name |-> self.weights[n].name,
                                  shape |-> self.weights[n].value.shape,
                                  init |-> "set"]]) :
           /\ ws # self.weights
           /\ self' = [self EXCEPT !.weights = ws]
    /\ UNCHANGED <<pc, config, inputs, output, raised, graph, used, clone>>

\* get_config() of the constructed layer: config becomes the exported one.
GetConfig ==
    /\ pc = "new"
    /\ config' = Layer_get_config(self)
    /\ pc' = "exported"
    /\ UNCHANGED <<self, inputs, output, raised, graph, used, clone>>

\* cls.from_config(config), cls called with config: a second layer of the class
\* from the exported configuration.
FromConfig ==
    /\ pc = "exported"
    /\ \E r \in {Layer_init(self.class, config)} :
           /\ raised' = r.raised
           /\ clone' = r.layer
           /\ pc' = IF r.raised = "none" THEN "restored" ELSE "failed"
    /\ UNCHANGED <<config, self, inputs, output, graph, used>>

Start(class) == [class |-> class, built |-> FALSE, weights |-> NoWeights]

\* The state before the constructor runs on the keywords kwargs.
Fresh(class, kwargs) ==
    /\ pc = "start"
    /\ config = kwargs
    /\ self = Start(class)
    /\ output = None
    /\ raised = "none"
    /\ graph = <<>>
    /\ used = <<>>
    /\ clone = NoLayer

Called(class) == pc = "called" /\ self.class = class

(***************************************************************************)
(* FM, from construction to its call on one tensor.                       *)
(***************************************************************************)
FMInit ==
    /\ Fresh("FM", <<>>)
    /\ \/ SomeRank3(LAMBDA x : inputs = One(x))
       \/ SomeRank2(LAMBDA x : inputs = One(x))

FMNext == Construct \/ Build \/ Call

SpecFM == FMInit /\ [][FMNext]_vars

\* The brute-force pairwise sum of row b of x: the dot products v_i . v_j
\* over the field pairs i < j, by explicit double iteration.
BruteForce(x, b) ==
    SumSeq([i \in 1..x.shape[2] |->
        SumSeq([j \in 1..x.shape[2] |->
            IF i < j
            THEN SumSeq([d \in 1..x.shape[3] |-> At3(x, b, i, d) * At3(x, b, j, d)])
            ELSE 0])])

\* C1: FM.call returns a (batch, 1) tensor whose entry for each batch row is
\* exactly the brute-force sum over the field pairs i < j of v_i . v_j: 0 for
\* one field, 12 for 3 fields of all-ones vectors of embedding_dim 4.
C1_FMIsPairwiseSum ==
    Called("FM") =>
        LET x == inputs.t[1]
        IN  /\ output.shape = <<x.shape[1], 1>>
            /\ \A b \in 1..x.shape[1] :
                  At2(output, b, 1) = [whole |-> BruteForce(x, b), half |-> 0]
            /\ x.shape[2] = 1 =>
                  \A b \in 1..x.shape[1] : At2(output, b, 1) = [whole |-> 0, half |-> 0]
            /\ (x.shape[2] = 3 /\ x.shape[3] = 4 /\ \A n \in 1..Len(x.flat) : x.flat[n] = 1) =>
                  \A b \in 1..x.shape[1] : At2(output, b, 1) = [whole |-> 12, half |-> 0]

C1_Witness ==
    /\ Called("FM")
    /\ inputs = One(Full(<<2, 3, 4>>, 1))
    /\ output = Tensor(<<2, 1>>, <<[whole |-> 12, half |-> 0], [whole |-> 12, half |-> 0]>>)

(***************************************************************************)
(* InnerProductLayer, from construction to its call on a list.             *)
(***************************************************************************)
InnerInit ==
    /\ \E kwargs \in {<<>>} \cup {[reduce_sum |-> r] : r \in BOOLEAN} :
          Fresh("InnerProductLayer", kwargs)
    /\ SomeEmbeddingList(LAMBDA ts : inputs = List(ts))

InnerNext == Construct \/ Build \/ Call

SpecInner == InnerInit /\ [][InnerNext]_vars

\* v_i . v_j of row b of the list's tensors i and j (0-based).
Dot(ts, b, i, j) ==
    SumSeq([d \in 1..ts[i + 1].shape[3] |->
               At3(ts[i + 1], b, 1, d) * At3(ts[j + 1], b, 1, d)])

\* The column (1-based) of the pair (i, j) in the canonical enumeration, i
\* ascending, then j ascending: one more than the pairs that come before it.
ColumnOf(i, j, N) ==
    1 + Cardinality({kl \in (0..(N - 1)) \X (0..(N - 1)) :
                        /\ kl[1] < kl[2]
                        /\ \/ kl[1] < i
                           \/ kl[1] = i /\ kl[2] < j})

\* C2: with reduce_sum, InnerProductLayer.call on N tensors returns
\* N(N-1)/2 columns, the shape compute_output_shape states, and the column
\* of each pair i < j in the canonical enumeration holds v_i . v_j; for
\* N = 3 the columns are the pairs (0,1), (0,2), (1,2).
C2_InnerColumnsCanonical ==
    (Called("InnerProductLayer") /\ self.attrs.reduce_sum) =>
        LET ts == inputs.t
            N == Len(ts)
            B == ts[1].shape[1]
        IN  /\ output.shape = <<B, (N * (N - 1)) \div 2>>
            /\ output.shape =
                   InnerProductLayer_compute_output_shape(self, ShapeOf(inputs))
            /\ \A i, j \in 0..(N - 1) : i < j =>
                  \A b \in 1..B :
                      At2(output, b, ColumnOf(i, j, N)) = Dot(ts, b, i, j)
            /\ N = 3 => \A b \in 1..B :
                  /\ At2(output, b, 1) = Dot(ts, b, 0, 1)
                  /\ At2(output, b, 2) = Dot(ts, b, 0, 2)
                  /\ At2(output, b, 3) = Dot(ts, b, 1, 2)

\* Three inputs whose pairwise products are not all equal, so that the order
\* of the columns shows.
C2_Witness ==
    /\ Called("InnerProductLayer")
    /\ self.attrs.reduce_sum
    /\ Len(inputs.t) = 3
    /\ output.shape = <<1, 3>>
    /\ output.flat = <<1, 0 - 1, 0 - 1>>

(***************************************************************************)
(* OutterProductLayer, from construction to its call on a list.            *)
(***************************************************************************)
OutterInit ==
    /\ \E kwargs \in {[kernel_type |-> k] : k \in {"mat", "vec", "num"}} :
          Fresh("OutterProductLayer", kwargs)
    /\ SomeEmbeddingList(LAMBDA ts : inputs = List(ts))

OutterNext == Construct \/ Build \/ Call

SpecOutter == OutterInit /\ [][OutterNext]_vars

\* C3: OutterProductLayer with kernel_type 'num' and an all-ones kernel
\* returns, column by column, the (batch, num_pairs) tensor that
\* InnerProductLayer with reduce_sum returns on the same inputs.
C3_OutterNumOnesIsInner ==
    (/\ Called("OutterProductLayer")
     /\ self.attrs.kernel_type = "num"
     /\ \A n \in 1..Len(Weight(self, "kernel").flat) :
           Weight(self, "kernel").flat[n] = 1) =>
        /\ Weight(self, "kernel").shape =
               <<(Len(inputs.t) * (Len(inputs.t) - 1)) \div 2, 1>>
        /\ output = InnerProductLayer_call(
                        InnerProductLayer_init(<<>>).layer, inputs).out

C3_Witness ==
    /\ Called("OutterProductLayer")
    /\ self.attrs.kernel_type = "num"
    /\ Weight(self, "kernel") = Full(<<3, 1>>, 1)
    /\ output = Tensor(<<1, 3>>, <<1, 0 - 1, 0 - 1>>)

\* The bilinear form of row b of the list's tensors i and j (0-based) with
\* the slice c of W, the first tensor against W's first axis and the second
\* against its last: sum over d, e of p[d] * W[d, c, e] * q[e].
BilinearFirstLast(ts, W, b, i, j, c) ==
    SumSeq([d \in 1..W.shape[1] |->
        SumSeq([e \in 1..W.shape[3] |->
            At3(ts[i + 1], b, 1, d) * At3(W, d, c, e) * At3(ts[j + 1], b, 1, e)])])

\* The same with the axes of W exchanged, the first tensor against W's last
\* axis and the second against its first: sum over d, e of
\* p[d] * W[e, c, d] * q[e].
BilinearLastFirst(ts, W, b, i, j, c) ==
    SumSeq([d \in 1..W.shape[3] |->
        SumSeq([e \in 1..W.shape[1] |->
            At3(ts[i + 1], b, 1, d) * At3(W, e, c, d) * At3(ts[j + 1], b, 1, e)])])

\* C11 as stated: with kernel_type 'mat' and the kernel W of shape
\* (embedding_dim, num_pairs, embedding_dim), the output of pair number c,
\* of the embeddings p and q, is the bilinear form with p against W's first
\* axis and q against W's last: sum over d, e of p[d] * W[d, c, e] * q[e].
C11_MatContractsPFirst ==
    (Called("OutterProductLayer") /\ self.attrs.kernel_type = "mat") =>
        LET ts == inputs.t
            N == Len(ts)
            W == Weight(self, "kernel")
        IN  /\ W.shape = <<ts[1].shape[3], (N * (N - 1)) \div 2, ts[1].shape[3]>>
            /\ \A i, j \in 0..(N - 1) : i < j =>
                  \A b \in 1..ts[1].shape[1] :
                      At2(output, b, ColumnOf(i, j, N)) =
                          BilinearFirstLast(ts, W, b, i, j, ColumnOf(i, j, N))

\* C11, amended: with kernel_type 'mat' the output of pair number c is the
\* bilinear form with p against W's last axis and q against W's first:
\* sum over d, e of p[d] * W[e, c, d] * q[e].
C11_MatContractsPLast ==
    (Called("OutterProductLayer") /\ self.attrs.kernel_type = "mat") =>
        LET ts == inputs.t
            N == Len(ts)
            W == Weight(self, "kernel")
        IN  /\ W.shape = <<ts[1].shape[3], (N * (N - 1)) \div 2, ts[1].shape[3]>>
            /\ \A i, j \in 0..(N - 1) : i < j =>
                  \A b \in 1..ts[1].shape[1] :
                      At2(output, b, ColumnOf(i, j, N)) =
                          BilinearLastFirst(ts, W, b, i, j, ColumnOf(i, j, N))

\* A kernel that is not symmetric, W[0, 0, 1] = 1 and 0 elsewhere, with
\* p = (0, 1) and q = (1, 0): p[1] * W[0, 0, 1] * q[0] = 1.
C11_Witness ==
    /\ Called("OutterProductLayer")
    /\ self.attrs.kernel_type = "mat"
    /\ Weight(self, "kernel") = Unit(<<2, 1, 2>>, 2)
    /\ inputs = List(<<Tensor(<<1, 1, 2>>, <<0, 1>>), Tensor(<<1, 1, 2>>, <<1, 0>>)>>)
    /\ output = Tensor(<<1, 1>>, <<1>>)

(***************************************************************************)
(* CrossNet, from construction to its call on one tensor.                  *)
(***************************************************************************)
CrossInit ==
    /\ \E kwargs \in {<<>>} \cup {[layer_num |-> n] : n \in 0..MaxLayers} :
          Fresh("CrossNet", kwargs)
    /\ SomeRank2(LAMBDA x : inputs = One(x))

CrossNext == Construct \/ Build \/ Call

SpecCross == CrossInit /\ [][CrossNext]_vars

\* C4: a CrossNet of layer_num = 0 allocates no kernel and no bias, and its
\* call returns its rank-2 input unchanged.
C4_CrossNetZeroLayersIdentity ==
    (self.class = "CrossNet" /\ pc # "start" /\ self.attrs.layer_num = 0) =>
        /\ self.weights = <<>>
        /\ graph = <<>>
        /\ pc = "called" => output = inputs.t[1]

C4_Witness ==
    /\ Called("CrossNet")
    /\ self.attrs.layer_num = 0
    /\ inputs.t[1].shape = <<2, 2>>
    /\ output = Tensor(<<2, 2>>, <<1, 0 - 1, 0, 1>>)

IsZero(t) == \A n \in 1..Len(t.flat) : t.flat[n] = 0

\* C5: a CrossNet of layer_num = 1 whose kernel and bias are zero vectors
\* returns its rank-2 input unchanged.
C5_CrossNetZeroWeightsIdentity ==
    (/\ Called("CrossNet")
     /\ self.attrs.layer_num = 1
     /\ IsZero(Weight(self, "kernel0"))
     /\ IsZero(Weight(self, "bias0"))) =>
        output = inputs.t[1]

C5_Witness ==
    /\ Called("CrossNet")
    /\ self.attrs.layer_num = 1
    /\ Weight(self, "kernel0") = Full(<<2, 1>>, 0)
    /\ Weight(self, "bias0") = Full(<<2, 1>>, 0)
    /\ output = Tensor(<<2, 2>>, <<1, 0 - 1, 0, 1>>)

(***************************************************************************)
(* CrossNet with its kernels and biases updated between build and call.    *)
(***************************************************************************)
TrainedLayerNums == {1, 2}

TrainedShapes == {<<1, 1>>, <<2, 1>>, <<1, 2>>, <<2, 2>>}

\* The inputs: every tensor of up to 2 elements, and of the bigger shapes
\* the tensors filled with one value and the unit tensors.
TrainedInit ==
    /\ \E n \in TrainedLayerNums : Fresh("CrossNet", [layer_num |-> n])
    /\ \E shape \in TrainedShapes :
          \E x \in (IF Prod(shape) <= 2 THEN TensorsOf(shape)
                    ELSE WeightTensors(shape)) :
             inputs = One(x)

TrainedNext == Construct \/ Build \/ SetWeights \/ Call

SpecTrained == TrainedInit /\ [][TrainedNext]_vars

\* x_k of row b of the input x under the recurrence
\* x_{k+1} = x_0 * (x_k . kernel_k) + x_k + bias_k, x_0 the row itself: a
\* sequence of dim numbers.
RECURSIVE Recurrence(_, _, _, _)
Recurrence(layer, x, b, k) ==
    LET dim == x.shape[2]
        x_0 == [i \in 1..dim |-> At2(x, b, i)]
    IN  IF k = 0 THEN x_0
        ELSE The({LET kernel == Weight(layer, KernelName(k - 1))
                      bias == Weight(layer, BiasName(k - 1))
                      dot == SumSeq([j \in 1..dim |-> x_k[j] * At2(kernel, j, 1)])
                  IN  [i \in 1..dim |-> x_0[i] * dot + x_k[i] + At2(bias, i, 1)] :
                     x_k \in {Recurrence(layer, x, b, k - 1)}})

\* C12: the call of a CrossNet returns, with the input's shape (batch, dim),
\* x_{layer_num} of the recurrence x_{k+1} = x_0 * (x_k . kernel_k) + x_k +
\* bias_k, x_0 the input: kernel k and bias k are used in iteration k and in
\* no other, in ascending order, x_0 is the input in every iteration, and
\* the call reads every kernel and bias of the layer.
C12_CrossNetRecurrence ==
    Called("CrossNet") =>
        LET x == inputs.t[1]
            L == self.attrs.layer_num
        IN  /\ output.shape = x.shape
            /\ \A b \in 1..x.shape[1] :
                  [i \in 1..x.shape[2] |-> At2(output, b, i)] =
                      Recurrence(self, x, b, L)
            /\ Len(self.weights) = 2 * L
            /\ used[1] = {OwnVar(KernelName(k)) : k \in 0..(L - 1)}
                            \cup {OwnVar(BiasName(k)) : k \in 0..(L - 1)}

\* Two layers with different kernels and different biases:
\* x_1 = (1,-1) * 1 + (1,-1) + (1,0) = (3,-2) and
\* x_2 = (1,-1) * -2 + (3,-2) + (1,1) = (2,1); with the kernels exchanged
\* the result would be (3,0).
C12_Witness ==
    /\ Called("CrossNet")
    /\ self.attrs.layer_num = 2
    /\ inputs = One(Tensor(<<1, 2>>, <<1, 0 - 1>>))
    /\ Weight(self, "kernel0") = Unit(<<2, 1>>, 1)
    /\ Weight(self, "bias0") = Unit(<<2, 1>>, 1)
    /\ Weight(self, "kernel1") = Unit(<<2, 1>>, 2)
    /\ Weight(self, "bias1") = Full(<<2, 1>>, 1)
    /\ output = Tensor(<<1, 2>>, <<2, 1>>)

(***************************************************************************)
(* Configurations: every class from its constructor through get_config to *)
(* a second layer made from the exported configuration.                   *)
(***************************************************************************)
\* The keywords with, besides, a name or trainable=False of the base layer.
Named(S) ==
    S \cup {Merge(k, [name |-> "layer"]) : k \in S}
      \cup {Merge(k, [trainable |-> FALSE]) : k \in S}

\* Keywords of the attention network of MLP and LocalActivationUnit: every
\* parameter is required.
NetKwargs ==
    {[hidden_size |-> h, activation |-> "relu", l2_reg |-> 0, keep_prob |-> 1,
      use_bn |-> b, seed |-> 1024] : h \in {<<>>, <<2>>, <<4, 2>>}, b \in BOOLEAN}

KwargsOf(class) ==
    CASE class = "AFMLayer" ->
             {<<>>, [attention_factor |-> 2], [attention_factor |-> 8, seed |-> 7]}
      [] class = "PredictionLayer" ->
             {<<>>, [use_bias |-> FALSE], [activation |-> "linear"]}
      [] class = "CrossNet" -> {<<>>, [layer_num |-> 0], [layer_num |-> 2, seed |-> 7]}
      [] class = "MLP" -> NetKwargs
      [] class = "OutterProductLayer" ->
             {<<>>, [kernel_type |-> "vec"], [kernel_type |-> "num", seed |-> 7]}
      [] class = "InnerProductLayer" -> {<<>>, [reduce_sum |-> FALSE]}
      [] class = "LocalActivationUnit" -> NetKwargs
      [] OTHER -> {<<>>}

Classes ==
    {"FM", "AFMLayer", "PredictionLayer", "CrossNet", "MLP",
     "BiInteractionPooling", "OutterProductLayer", "InnerProductLayer",
     "LocalActivationUnit"}

ConfigInit ==
    /\ \E class \in Classes : \E kwargs \in Named(KwargsOf(class)) :
          Fresh(class, kwargs)
    /\ inputs = One(None)

ConfigNext == Construct \/ GetConfig \/ FromConfig

SpecConfig == ConfigInit /\ [][ConfigNext]_vars

\* The parameters the constructor of the class has no default for.
Required(class) ==
    IF class \in {"MLP", "LocalActivationUnit"}
    THEN {"hidden_size", "activation", "l2_reg", "keep_prob", "use_bn", "seed"}
    ELSE {}

\* C6: for every class the configuration get_config exports holds every
\* parameter the constructor requires, and the constructor run on it succeeds
\* and gives a layer with the hyperparameters, the name and the trainable
\* flag of the original.
C6_ConfigRoundTrip ==
    /\ pc = "exported" => Required(self.class) \subseteq DOMAIN config
    /\ pc = "failed" => raised = "none"
    /\ pc = "restored" =>
          /\ clone.attrs = self.attrs
          /\ clone.name = self.name
          /\ clone.trainable = self.trainable

(***************************************************************************)
(* Shapes a build accepts or rejects: layers called on one tensor or on a  *)
(* list of tensors of the shapes of a pool.                                *)
(***************************************************************************)
ShapePool ==
    {<<1, 1, 1>>, <<2, 1, 1>>, <<1, 1, 2>>, <<1, 2, 1>>, <<1, 2, 2>>, <<1, 1>>}

\* P holds of one of the inputs over the pool: one tensor, or a list of up
\* to MaxInputs tensors, all filled with ones.
SomePoolInput(P(_)) ==
    \/ \E shape \in ShapePool : P(One(Full(shape, 1)))
    \/ \E n \in 1..MaxInputs : \E f \in [1..n -> ShapePool] :
          P(List([i \in 1..n |-> Full(f[i], 1)]))

BuildInit ==
    /\ \/ \E kwargs \in {<<>>, [reduce_sum |-> FALSE]} :
             Fresh("InnerProductLayer", kwargs)
       \/ \E k \in {"mat", "vec", "num", "sum"} :
             Fresh("OutterProductLayer", [kernel_type |-> k])
       \/ \E kwargs \in {<<>>, [attention_factor |-> 2]} :
             Fresh("AFMLayer", kwargs)
    /\ SomePoolInput(LAMBDA in : inputs = in)

BuildNext == Construct \/ Build \/ Call

SpecBuild == BuildInit /\ [][BuildNext]_vars

\* What the three pairwise layers take: a list of at least 2 tensors of one
\* shape (batch, 1, embedding_size).
ValidPairwiseInput(in) ==
    /\ in.list
    /\ Len(in.t) >= 2
    /\ \A n \in 1..Len(in.t) : in.t[n].shape = in.t[1].shape
    /\ Len(in.t[1].shape) = 3
    /\ in.t[1].shape[2] = 1

\* C8: a kernel_type outside {mat, vec, num} is rejected by the constructor
\* of OutterProductLayer; the build of InnerProductLayer, OutterProductLayer
\* and AFMLayer never succeeds on an input that is not a list of at least 2
\* same-shaped rank-3 tensors of field-axis size 1; and a layer whose
\* constructor or build failed has raised an error, owns no weight and has
\* computed nothing.
C8_InvalidFailsFast ==
    /\ (/\ self.class = "OutterProductLayer"
        /\ Arg(config, "kernel_type", "mat") \notin {"mat", "vec", "num"}) =>
           pc \in {"start", "failed"}
    /\ ~ValidPairwiseInput(inputs) => pc \notin {"built", "called"}
    /\ pc = "failed" =>
          /\ raised = "ValueError"
          /\ self.weights = <<>>
          /\ graph = <<>>
          /\ used = <<>>
          /\ output = None

C8_Witness ==
    /\ pc = "failed"
    /\ self.class = "AFMLayer"
    /\ ShapeOf(inputs) = [list |-> TRUE, s |-> <<<<1, 2, 1>>, <<1, 2, 1>>>>]
    /\ raised = "ValueError"
    /\ self.weights = <<>>

(***************************************************************************)
(* LocalActivationUnit, from construction to its call.                     *)
(***************************************************************************)
LAUInit ==
    /\ \E kwargs \in NetKwargs : Fresh("LocalActivationUnit", kwargs)
    /\ SomePoolInput(LAMBDA in : inputs = in)

LAUNext == Construct \/ Build \/ Call

SpecLAU == LAUInit /\ [][LAUNext]_vars

\* What LocalActivationUnit takes: a query (batch, 1, embedding_size) and
\* keys (batch, T, embedding_size).
ValidLAUInput(in) ==
    /\ in.list
    /\ Len(in.t) = 2
    /\ Len(in.t[1].shape) = 3
    /\ Len(in.t[2].shape) = 3
    /\ in.t[1].shape[3] = in.t[2].shape[3]
    /\ in.t[1].shape[2] = 1

\* C7: the build of LocalActivationUnit succeeds on no input that is not a
\* list of exactly 2 rank-3 shapes of one embedding size whose first has
\* field-axis size 1, and when it fails the error it raises is the layer's
\* ValueError and no other.
C7_LAUBuildRaisesValueError ==
    /\ ~ValidLAUInput(inputs) => pc \notin {"built", "called"}
    /\ pc = "failed" => raised = "ValueError"

(***************************************************************************)
(* The weights of AFMLayer, MLP, LocalActivationUnit and PredictionLayer   *)
(* over a build and calls.                                                 *)
(***************************************************************************)
WeightsInit ==
    \/ /\ \E kwargs \in {<<>>, [attention_factor |-> 2]} :
             Fresh("AFMLayer", kwargs)
       /\ \E n \in 2..MaxInputs : \E b \in 1..MaxBatch : \E d \in 1..MaxDim :
          \E v \in Vals :
             inputs = List([i \in 1..n |-> Full(<<b, 1, d>>, v)])
    \/ /\ \E kwargs \in NetKwargs : Fresh("MLP", kwargs)
       /\ \E shape \in Shapes2 : \E v \in Vals : inputs = One(Full(shape, v))
    \/ /\ \E kwargs \in NetKwargs : Fresh("LocalActivationUnit", kwargs)
       /\ \E b \in 1..MaxBatch : \E T \in 1..MaxFields : \E d \in 1..MaxDim :
             inputs = List(<<Full(<<b, 1, d>>, 1), Full(<<b, T, d>>, 1)>>)
    \/ /\ \E kwargs \in {<<>>, [use_bias |-> FALSE]} :
             Fresh("PredictionLayer", kwargs)
       /\ \E b \in 1..MaxBatch : \E v \in Vals : inputs = One(Full(<<b, 1>>, v))

WeightsNext == Construct \/ Build \/ Call \/ Recall

SpecWeights == WeightsInit /\ [][WeightsNext]_vars

\* The variables the layer's own add_weight calls created.
OwnVars == {OwnVar(self.weights[n].name) : n \in 1..Len(self.weights)}

\* C9: every variable a call uses was created by the layer's build, the
\* graph holds no variable but those after any number of calls, and all
\* calls of a layer use the same variables.
C9_WeightsCreatedOnceInBuild ==
    /\ \A n \in 1..Len(used) : used[n] \subseteq OwnVars
    /\ pc \in {"built", "called"} =>
          {graph[n] : n \in 1..Len(graph)} = OwnVars
    /\ \A m, n \in 1..Len(used) : used[m] = used[n]

(***************************************************************************)
(* PredictionLayer, from construction to its call on one rank-2 tensor,   *)
(* its bias updated in between.                                            *)
(***************************************************************************)
PredInit ==
    /\ \E kwargs \in {<<>>} \cup
                     {[activation |-> a, use_bias |-> u] :
                         a \in {"sigmoid", "linear", "relu"}, u \in BOOLEAN} :
          Fresh("PredictionLayer", kwargs)
    /\ SomeRank2(LAMBDA x : inputs = One(x))

PredNext == Construct \/ Build \/ SetWeights \/ Call

SpecPred == PredInit /\ [][PredNext]_vars

\* The announced shape fits the shape: the same but where it says None.
Announces(announced, shape) ==
    /\ Len(announced) = Len(shape)
    /\ \A k \in 1..Len(shape) : announced[k] \in {NoneDim, shape[k]}

\* What the claim says of PredictionLayer once built and called: the call
\* did not fail, the weights are the one scalar bias or none, and the output
\* is one activated, biased value per batch row.
PredictionIsPerRow ==
    LET x == inputs.t[1]
        B == x.shape[1]
    IN  /\ pc # "failed"
        /\ pc \in {"built", "called"} =>
              IF self.attrs.use_bias
              THEN /\ Len(self.weights) = 1
                   /\ self.weights[1].name = "global_bias"
                   /\ self.weights[1].value.shape = <<1>>
              ELSE self.weights = <<>>
        /\ pc = "called" =>
              /\ output.shape = <<B, 1>>
              /\ Announces(PredictionLayer_compute_output_shape(self, ShapeOf(inputs)),
                           output.shape)
              /\ \A b \in 1..B :
                    output.flat[b] =
                        Activate(self.attrs.activation,
                                 IF self.attrs.use_bias
                                 THEN x.flat[b] + self.weights[1].value.flat[1]
                                 ELSE x.flat[b])

\* C10 as stated: for every input tensor with batch size B the call returns a
\* (B, 1) tensor, the announced shape, of the activated (and, with use_bias,
\* biased) inputs.
C10_PredictionAnyInput == PredictionIsPerRow

\* C10, amended: for every rank-2 input of shape (B, 1) the call returns a
\* (B, 1) tensor, the announced shape; without use_bias no weight is
\* allocated and the output is the activation of the input, with use_bias the
\* one scalar bias is added before the activation.
C10_PredictionOnColumn ==
    inputs.t[1].shape[2] = 1 => PredictionIsPerRow

C10_Witness ==
    /\ Called("PredictionLayer")
    /\ self.attrs.use_bias
    /\ self.attrs.activation = "linear"
    /\ Weight(self, "global_bias") = Full(<<1>>, 1)
    /\ inputs = One(Tensor(<<2, 1>>, <<1, 0 - 1>>))
    /\ output = Tensor(<<2, 1>>, <<2, 0>>)

(***************************************************************************)
(* MLP, from construction to its call on one tensor of rank 2 or 3.        *)
(***************************************************************************)
\* The lists of up to MaxLayers hidden sizes.
HiddenSizes ==
    UNION {[1..n -> 1..MaxDim] : n \in 0..MaxLayers}

MLPInit ==
    /\ \E h \in HiddenSizes : \E a \in {"relu", "sigmoid"} : \E b \in BOOLEAN :
          Fresh("MLP", [hidden_size |-> h, activation |-> a, l2_reg |-> 0,
                        keep_prob |-> 1, use_bn |-> b, seed |-> 1024])
    /\ \E shape \in Shapes2 \cup Shapes3 : \E v \in Vals :
          inputs = One(Full(shape, v))

MLPNext == Construct \/ Build \/ Call

SpecMLP == MLPInit /\ [][MLPNext]_vars

\* The layers of the block of one hidden size, in the order stated: the
\* projection, batch normalization if use_bn, the activation, dropout.
BlockOf(units, activation, use_bn, rate) ==
    <<[layer |-> "Dense", units |-> units, rate |-> 0, activation |-> "none"]>>
      \o (IF use_bn
          THEN <<[layer |-> "BatchNormalization", units |-> 0, rate |-> 0,
                  activation |-> "none"]>>
          ELSE <<>>)
      \o <<[layer |-> "Activation", units |-> 0, rate |-> 0,
            activation |-> activation],
           [layer |-> "Dropout", units |-> 0, rate |-> rate,
            activation |-> "none"]>>

\* C13: the call of an MLP applies, each to the output of the one before,
\* dropout to the raw input and then, for each hidden size in list order,
\* one projection to that size, batch normalization if and only if use_bn,
\* the activation and dropout; the projections are as many as the hidden
\* sizes; the output has the input's shape when hidden_size is empty and
\* else the input's shape with the last axis hidden_size[-1], which is what
\* compute_output_shape states.
C13_MLPOrderOfLayers ==
    Called("MLP") =>
        LET hs == self.attrs.hidden_size
            rate == 1 - self.attrs.keep_prob
            K == IF self.attrs.use_bn THEN 4 ELSE 3
            x == inputs.t[1]
            term == output.term
        IN  /\ Len(term) = 1 + K * Len(hs)
            /\ term[1] = [layer |-> "Dropout", units |-> 0, rate |-> rate,
                          activation |-> "none"]
            /\ \A l \in 1..Len(hs) :
                  SubSeq(term, 2 + K * (l - 1), 1 + K * l) =
                      BlockOf(hs[l], self.attrs.activation, self.attrs.use_bn, rate)
            /\ Cardinality({n \in 1..Len(term) : term[n].layer = "Dense"}) = Len(hs)
            /\ output.shape =
                   IF Len(hs) = 0 THEN x.shape
                   ELSE [x.shape EXCEPT ![Len(x.shape)] = hs[Len(hs)]]
            /\ output.shape = MLP_compute_output_shape(self, ShapeOf(inputs))

\* Two hidden sizes with batch normalization on a rank-3 input: nine layers.
C13_Witness ==
    /\ Called("MLP")
    /\ self.attrs.hidden_size = <<2, 1>>
    /\ self.attrs.use_bn
    /\ inputs.t[1].shape = <<2, 3, 2>>
    /\ output.shape = <<2, 3, 1>>
    /\ Len(output.term) = 9
    /\ output.term[2].layer = "Dense" /\ output.term[2].units = 2
    /\ output.term[3].layer = "BatchNormalization"
    /\ output.term[4].layer = "Activation"
    /\ output.term[6].layer = "Dense" /\ output.term[6].units = 1

(***************************************************************************)
(* BiInteractionPooling, from construction to its call on one tensor.      *)
(***************************************************************************)
PoolingInit ==
    /\ Fresh("BiInteractionPooling", <<>>)
    /\ \/ SomeRank3(LAMBDA x : inputs = One(x))
       \/ SomeRank2(LAMBDA x : inputs = One(x))

PoolingNext == Construct \/ Build \/ Call

SpecPooling == PoolingInit /\ [][PoolingNext]_vars

\* The sum over the field pairs i < j of v_i[d] * v_j[d], of row b of x, by
\* explicit double iteration.
PairSumAt(x, b, d) ==
    SumSeq([i \in 1..x.shape[2] |->
        SumSeq([j \in 1..x.shape[2] |->
            IF i < j THEN At3(x, b, i, d) * At3(x, b, j, d) ELSE 0])])

\* C14: BiInteractionPooling.call returns a (batch, embedding_dim) tensor,
\* the shape compute_output_shape states, whose entry d is exactly the sum
\* over the field pairs i < j of v_i[d] * v_j[d]; the sum of a row over the
\* embedding axis is FM.call's output for the row on the same input.
C14_PoolingIsPerDimensionPairSum ==
    Called("BiInteractionPooling") =>
        LET x == inputs.t[1]
            B == x.shape[1]
            D == x.shape[3]
            fm == FM_call(FM_init(<<>>).layer, inputs).out
        IN  /\ output.shape = <<B, D>>
            /\ Announces(BiInteractionPooling_compute_output_shape(self, ShapeOf(inputs)),
                         output.shape)
            /\ \A b \in 1..B : \A d \in 1..D :
                  At2(output, b, d) = [whole |-> PairSumAt(x, b, d), half |-> 0]
            /\ \A b \in 1..B :
                  [whole |-> SumSeq([d \in 1..D |-> At2(output, b, d).whole]),
                   half |-> 0] = At2(fm, b, 1)

\* Two fields (1,-1) and (1,1): the pooled vector is (1,-1), and FM's
\* output, its sum, is 0.
C14_Witness ==
    /\ Called("BiInteractionPooling")
    /\ inputs = One(Tensor(<<1, 2, 2>>, <<1, 0 - 1, 1, 1>>))
    /\ output = Tensor(<<1, 2>>, <<[whole |-> 1, half |-> 0],
                                   [whole |-> 0 - 1, half |-> 0]>>)

====
